---- MODULE Spec2Model ----
(***************************************************************************)
(* Model of .scripts/tg_send.py: a one-shot command line sender.           *)
(*                                                                         *)
(* One invocation of the program is one behaviour.  The state is the       *)
(* program's inputs (environment, arguments, standard input), the local    *)
(* variable `message` of main(), the position of the single thread of      *)
(* control, the exception in flight, the process exit status, and `trace`, *)
(* the log of everything the program does to the outside world in the     *)
(* order it does it: reads of standard input, calls into the client        *)
(* library, exceptions the library raises, and printed lines.              *)
(*                                                                         *)
(* The client library (telethon) is not part of the program.  Its          *)
(* client.start and client.send_message either return or raise an          *)
(* Exception with some text; the constructor and client.disconnect         *)
(* return.                                                                 *)
(*                                                                         *)
(* Strings that the program inspects character by character (the message   *)
(* argument, standard input) are sequences of one-character strings.       *)
(***************************************************************************)
EXTENDS Integers, Sequences, FiniteSets, TLC

\* ---------------------------------------------------------------- bounds
MaxStdinLen == 3

\* ---------------------------------------------------------------- inputs
EnvVars == {"TELEGRAM_API_ID", "TELEGRAM_API_HASH", "TELEGRAM_PHONE"}

\* os.getenv returns None for an unset variable
None == "None"

EnvValues == {None, "", "x"}

Whitespace == {" ", "\n"}

Chars == Whitespace \cup {"a"}

RECURSIVE SeqsUpTo(_)
SeqsUpTo(n) ==
  IF n = 0 THEN {<<>>}
  ELSE LET shorter == SeqsUpTo(n - 1)
       IN  shorter \cup {Append(s, c) : s \in {t \in shorter : Len(t) = n - 1}, c \in Chars}

HelloInput == <<" ", " ", "H", "e", "l", "l", "o", " ", " ", "\n">>

StdinContents == SeqsUpTo(MaxStdinLen) \cup {HelloInput}

Sentinel == <<"-">>

MessageArgs == {Sentinel, <<>>, <<" ">>, <<"a">>, <<" ", "a", "\n">>, <<"a", "-">>}

Recipients == {"username", "@botname"}

ExcTexts == {"boom", "flood"}

DefaultSession == "tg_session"

\* ---------------------------------------------------------------- state
VARIABLES env, recipient, argMessage, stdin, message, pc, exc, exitCode, trace

vars == <<env, recipient, argMessage, stdin, message, pc, exc, exitCode, trace>>

inputs == <<env, recipient, argMessage, stdin>>

Event(op, arg) == [op |-> op, arg |-> arg]

Line(line) == Event("print", line)

\* ------------------------------------------------------- printed lines
MissingEnvLines ==
  << Line(<<"Error: Missing required environment variables:">>),
     Line(<<"  TELEGRAM_API_ID">>),
     Line(<<"  TELEGRAM_API_HASH">>),
     Line(<<"  TELEGRAM_PHONE">>),
     Line(<<"\nGet API credentials from: https://my.telegram.org">>) >>

NoMessageLine == Line(<<"Error: No message provided via stdin">>)

SendingLine(r) == Line(<<"Sending message to ", r, "...">>)

SuccessLine == Line(<<"Message sent successfully!">>)

ErrorLine(e) == Line(<<"Error sending message: ", e>>)

\* ------------------------------------------------------- pure functions
\* truth value of an os.getenv result
Truthy(v) == v # None /\ v # ""

\* any(...) in place of all(...)
AllSet_Any(e) == \E v \in EnvVars : Truthy(e[v])

\* all([api_id, api_hash, phone])
AllSet(e) == \A v \in EnvVars : Truthy(e[v])

RECURSIVE lstrip(_)
lstrip(s) == IF s # <<>> /\ Head(s) \in Whitespace THEN lstrip(Tail(s)) ELSE s

RECURSIVE rstrip(_)
rstrip(s) ==
  IF s # <<>> /\ s[Len(s)] \in Whitespace THEN rstrip(SubSeq(s, 1, Len(s) - 1)) ELSE s

\* trims the left end only
strip_LeftOnly(s) == lstrip(s)

strip(s) == rstrip(lstrip(s))

\* ---------------------------------------------------------------- Init
\* The state after parser.parse_args(): arguments bound, nothing done yet.
Init ==
  /\ env \in [EnvVars -> EnvValues]
  /\ recipient \in Recipients
  /\ argMessage \in MessageArgs
  /\ stdin \in StdinContents
  /\ message = argMessage
  /\ pc = "main"
  /\ exc = <<>>
  /\ exitCode = <<>>
  /\ trace = <<>>

\* ---------------------------------------------------------------- actions
\* the empty-body check left out
ResolveStdin_NoEmptyCheck ==
  /\ pc = "main"
  /\ argMessage = Sentinel
  /\ message' = strip(stdin)
  /\ trace' = Append(trace, Event("stdin.read", <<>>))
  /\ pc' = "load_config"
  /\ UNCHANGED <<inputs, exc, exitCode>>

\* credentials checked at the top of main(), before standard input is read
ResolveStdin_ConfigFirst ==
  /\ pc = "main"
  /\ argMessage = Sentinel
  /\ IF ~AllSet(env)
       THEN /\ trace' = Append(trace, Event("load_config", <<>>)) \o MissingEnvLines
            /\ message' = message
            /\ exc' = <<"SystemExit">>
            /\ pc' = "exit"
       ELSE /\ message' = strip(stdin)
            /\ IF message' = <<>>
                 THEN /\ trace' = trace \o <<Event("stdin.read", <<>>), NoMessageLine>>
                      /\ exc' = <<"SystemExit">>
                      /\ pc' = "exit"
                 ELSE /\ trace' = Append(trace, Event("stdin.read", <<>>))
                      /\ exc' = exc
                      /\ pc' = "load_config"
  /\ UNCHANGED <<inputs, exitCode>>

\* main(), message == '-': read standard input, trim, reject an empty body
ResolveStdin ==
  /\ pc = "main"
  /\ argMessage = Sentinel
  /\ message' = strip(stdin)
  /\ IF message' = <<>>
       THEN /\ trace' = trace \o <<Event("stdin.read", <<>>), NoMessageLine>>
            /\ exc' = <<"SystemExit">>
            /\ pc' = "exit"
       ELSE /\ trace' = Append(trace, Event("stdin.read", <<>>))
            /\ exc' = exc
            /\ pc' = "load_config"
  /\ UNCHANGED <<inputs, exitCode>>

\* the literal argument trimmed like standard input
ResolveLiteral_Stripped ==
  /\ pc = "main"
  /\ argMessage # Sentinel
  /\ message' = strip(argMessage)
  /\ pc' = "load_config"
  /\ UNCHANGED <<inputs, exc, exitCode, trace>>

\* main(), message # '-': the argument is the body
ResolveLiteral ==
  /\ pc = "main"
  /\ argMessage # Sentinel
  /\ message' = argMessage
  /\ pc' = "load_config"
  /\ UNCHANGED <<inputs, exc, exitCode, trace>>

\* send_message_async line 33: load_config()
LoadConfig ==
  /\ pc = "load_config"
  /\ IF AllSet(env)
       THEN /\ trace' = Append(trace, Event("load_config", <<>>))
            /\ exc' = exc
            /\ pc' = "TelegramClient"
       ELSE /\ trace' = Append(trace, Event("load_config", <<>>)) \o MissingEnvLines
            /\ exc' = <<"SystemExit">>
            /\ pc' = "exit"
  /\ UNCHANGED <<inputs, message, exitCode>>

\* client = TelegramClient(session_file, api_id, api_hash)
CreateClient ==
  /\ pc = "TelegramClient"
  /\ trace' = Append(trace, Event("TelegramClient",
                 <<DefaultSession, env["TELEGRAM_API_ID"], env["TELEGRAM_API_HASH"]>>))
  /\ pc' = "start"
  /\ UNCHANGED <<inputs, message, exc, exitCode>>

\* await client.start(phone=phone): returns
StartOk ==
  /\ pc = "start"
  /\ trace' = Append(trace, Event("start", <<env["TELEGRAM_PHONE"]>>))
  /\ pc' = "print_sending"
  /\ UNCHANGED <<inputs, message, exc, exitCode>>

\* the exception of client.start swallowed, control continues in the try block
StartRaise_Continue ==
  /\ pc = "start"
  /\ \E e \in ExcTexts :
       trace' = trace \o <<Event("start", <<env["TELEGRAM_PHONE"]>>), Event("raise", <<e>>)>>
  /\ pc' = "print_sending"
  /\ UNCHANGED <<inputs, message, exc, exitCode>>

\* await client.start(phone=phone): raises
StartRaise ==
  /\ pc = "start"
  /\ \E e \in ExcTexts :
       /\ trace' = trace \o <<Event("start", <<env["TELEGRAM_PHONE"]>>), Event("raise", <<e>>)>>
       /\ exc' = <<"Exception", e>>
  /\ pc' = "except"
  /\ UNCHANGED <<inputs, message, exitCode>>

\* print(f"Sending message to {recipient}...")
ReportSending ==
  /\ pc = "print_sending"
  /\ trace' = Append(trace, SendingLine(recipient))
  /\ pc' = "send_message"
  /\ UNCHANGED <<inputs, message, exc, exitCode>>

\* await client.send_message(recipient, message): returns
SendOk ==
  /\ pc = "send_message"
  /\ trace' = Append(trace, Event("send_message", <<recipient>> \o message))
  /\ pc' = "print_success"
  /\ UNCHANGED <<inputs, message, exc, exitCode>>

\* the exception of client.send_message swallowed, control continues in the try block
SendRaise_Swallowed ==
  /\ pc = "send_message"
  /\ \E e \in ExcTexts :
       trace' = trace \o <<Event("send_message", <<recipient>> \o message),
                            Event("raise", <<e>>)>>
  /\ pc' = "print_success"
  /\ UNCHANGED <<inputs, message, exc, exitCode>>

\* await client.send_message(recipient, message): raises
SendRaise ==
  /\ pc = "send_message"
  /\ \E e \in ExcTexts :
       /\ trace' = trace \o <<Event("send_message", <<recipient>> \o message),
                              Event("raise", <<e>>)>>
       /\ exc' = <<"Exception", e>>
  /\ pc' = "except"
  /\ UNCHANGED <<inputs, message, exitCode>>

\* the confirmation line left out
ReportSuccess_Silent ==
  /\ pc = "print_success"
  /\ pc' = "finally"
  /\ UNCHANGED <<inputs, message, exc, exitCode, trace>>

\* print("Message sent successfully!"), then the try block ends
ReportSuccess ==
  /\ pc = "print_success"
  /\ trace' = Append(trace, SuccessLine)
  /\ pc' = "finally"
  /\ UNCHANGED <<inputs, message, exc, exitCode>>

\* an exit that does not run the finally block
ExceptHandler_SkipFinally ==
  /\ pc = "except"
  /\ exc # <<>> /\ exc[1] = "Exception"
  /\ trace' = Append(trace, ErrorLine(exc[2]))
  /\ exc' = <<"SystemExit">>
  /\ pc' = "exit"
  /\ UNCHANGED <<inputs, message, exitCode>>

\* the handler prints and returns without sys.exit(1)
ExceptHandler_NoExit ==
  /\ pc = "except"
  /\ exc # <<>> /\ exc[1] = "Exception"
  /\ trace' = Append(trace, ErrorLine(exc[2]))
  /\ exc' = <<>>
  /\ pc' = "finally"
  /\ UNCHANGED <<inputs, message, exitCode>>

\* except Exception as e: print(...); sys.exit(1)
ExceptHandler ==
  /\ pc = "except"
  /\ exc # <<>> /\ exc[1] = "Exception"
  /\ trace' = Append(trace, ErrorLine(exc[2]))
  /\ exc' = <<"SystemExit">>
  /\ pc' = "finally"
  /\ UNCHANGED <<inputs, message, exitCode>>

\* finally: await client.disconnect()
Disconnect ==
  /\ pc = "finally"
  /\ trace' = Append(trace, Event("disconnect", <<>>))
  /\ pc' = "exit"
  /\ UNCHANGED <<inputs, message, exc, exitCode>>

\* asyncio.run and main return, or SystemExit(1) reaches the interpreter
Terminate ==
  /\ pc = "exit"
  /\ exitCode' = IF exc = <<>> THEN <<0>> ELSE <<1>>
  /\ pc' = "done"
  /\ UNCHANGED <<inputs, message, exc, trace>>

Next ==
  \/ ResolveStdin
  \/ ResolveLiteral
  \/ LoadConfig
  \/ CreateClient
  \/ StartOk
  \/ StartRaise
  \/ ReportSending
  \/ SendOk
  \/ SendRaise
  \/ ReportSuccess
  \/ ExceptHandler
  \/ Disconnect
  \/ Terminate

Spec == Init /\ [][Next]_vars

\* ================================================================ claims
\* some credential variable is unset or empty
MissingCredential == \E v \in EnvVars : env[v] = None \/ env[v] = ""

Idx(op) == {i \in DOMAIN trace : trace[i].op = op}

Count(op) == Cardinality(Idx(op))

Printed(l) == \E i \in DOMAIN trace : trace[i] = l

IsPrint(ev) == ev.op = "print"

Output == SelectSeq(trace, IsPrint)

MissingEnvPrinted ==
  \E i \in DOMAIN trace :
    /\ i + Len(MissingEnvLines) - 1 <= Len(trace)
    /\ SubSeq(trace, i, i + Len(MissingEnvLines) - 1) = MissingEnvLines

NetworkOps == {"TelegramClient", "start", "send_message", "disconnect"}

NoNetwork == \A i \in DOMAIN trace : trace[i].op \notin NetworkOps

Blank(s) == \A i \in DOMAIN s : s[i] \in Whitespace

Ended == pc \in {"exit", "done"}

IsOutcomeLine(ev) == ev = SuccessLine \/ \E e \in ExcTexts : ev = ErrorLine(e)

SendCompleted == Count("send_message") = 1 /\ Count("raise") = 0

\* m is s without its leading and trailing whitespace, the rest untouched
IsTrimOf(m, s) ==
  \E i \in 0..Len(s) : \E j \in i..Len(s) :
    /\ m = SubSeq(s, i + 1, j)
    /\ \A k \in 1..i : s[k] \in Whitespace
    /\ \A k \in (j + 1)..Len(s) : s[k] \in Whitespace
    /\ m # <<>> => (m[1] \notin Whitespace /\ m[Len(m)] \notin Whitespace)

C2_Original ==
  MissingCredential =>
    /\ NoNetwork
    /\ pc = "done" => (MissingEnvPrinted /\ exitCode = <<1>>)

\* C2 amended: whenever a credential variable is unset or empty, the
\* invocation exits non-zero and performs no network operation; it prints the
\* missing-credentials diagnostic unless the message argument is "-" and
\* standard input is blank, in which case it has already ended with the
\* empty-message diagnostic.
C2_MissingCredentialsFatal ==
  MissingCredential =>
    /\ NoNetwork
    /\ pc = "done" =>
         /\ exitCode = <<1>>
         /\ MissingEnvPrinted <=> ~(argMessage = Sentinel /\ Blank(stdin))
         /\ Printed(NoMessageLine) <=> (argMessage = Sentinel /\ Blank(stdin))

C2_Witness_OneEmpty ==
  /\ pc = "done"
  /\ env["TELEGRAM_API_ID"] = "x"
  /\ env["TELEGRAM_API_HASH"] = ""
  /\ env["TELEGRAM_PHONE"] = "x"
  /\ MissingEnvPrinted
  /\ exitCode = <<1>>

\* C3: an exception raised by client.start or client.send_message is handled
\* once: its text is printed in exactly one error line, no library call is
\* retried or issued afterwards except the release, the success line is never
\* printed, and the process ends with status 1.
C3_ExceptionsFatal ==
  \A i \in Idx("raise") :
    /\ Count("raise") = 1
    /\ \A j \in Idx("start") \cup Idx("send_message") \cup Idx("TelegramClient") : j < i
    /\ ~Printed(SuccessLine)
    /\ pc \in {"finally", "exit", "done"} =>
         /\ Cardinality({j \in DOMAIN trace : IsOutcomeLine(trace[j])}) = 1
         /\ \E j \in DOMAIN trace : j > i /\ trace[j] = ErrorLine(trace[i].arg[1])
    /\ pc = "done" => exitCode = <<1>>

C3_Witness_SendRaised ==
  /\ pc = "done"
  /\ Count("send_message") = 1
  /\ Count("raise") = 1
  /\ Printed(ErrorLine("flood"))
  /\ exitCode = <<1>>

\* C4: with valid credentials and a send that completed, the invocation ends
\* with status 0 and its output is the recipient line followed by the success
\* line; the success line is printed only after a send that completed.
C4_SuccessReport ==
  /\ (pc = "done" /\ ~MissingCredential /\ SendCompleted) =>
       /\ exitCode = <<0>>
       /\ Output = <<SendingLine(recipient), SuccessLine>>
  /\ Printed(SuccessLine) => SendCompleted

C4_Witness_Sent ==
  /\ pc = "done"
  /\ ~MissingCredential
  /\ SendCompleted
  /\ exitCode = <<0>>

\* C5: message argument "-" and blank standard input: the invocation prints
\* the empty-message diagnostic, ends with a non-zero status and performs no
\* network operation.
C5_EmptyStdinFatal ==
  (argMessage = Sentinel /\ Blank(stdin) /\ pc # "main") =>
    /\ Ended
    /\ Printed(NoMessageLine)
    /\ NoNetwork
    /\ pc = "done" => exitCode = <<1>>

C5_Witness_WhitespaceOnly ==
  /\ pc = "done"
  /\ argMessage = Sentinel
  /\ stdin = <<" ", "\n">>
  /\ Printed(NoMessageLine)

\* C6 as stated: credentials are checked before standard input is read, and
\* an invocation with a missing credential ends with the credential
\* diagnostic, never with the empty-message diagnostic.
C6_Original ==
  /\ \A i \in Idx("stdin.read") : \E j \in Idx("load_config") : j < i
  /\ (MissingCredential /\ pc = "done") => (MissingEnvPrinted /\ ~Printed(NoMessageLine))

\* C6 amended: message-body resolution is the first step and precedes
\* credential validation: standard input is read and the empty-message check
\* made before the credentials are checked, so with argument "-" and blank
\* standard input the invocation ends with the empty-message diagnostic and
\* never with the credential diagnostic, also when a credential is missing.
C6_BodyBeforeCredentials ==
  /\ \A j \in Idx("load_config") :
       /\ argMessage = Sentinel => \E i \in Idx("stdin.read") : i < j
       /\ ~Printed(NoMessageLine)
  /\ (argMessage = Sentinel /\ Blank(stdin) /\ Ended) =>
       /\ Printed(NoMessageLine)
       /\ ~MissingEnvPrinted
       /\ Count("load_config") = 0

C6_Witness_MissingAndBlank ==
  /\ pc = "done"
  /\ MissingCredential
  /\ argMessage = Sentinel
  /\ Blank(stdin)
  /\ Printed(NoMessageLine)

\* C7 as stated: the outcome line (success or failure) is printed after the
\* connection has been released.
C7_Original ==
  \A i \in DOMAIN trace :
    IsOutcomeLine(trace[i]) => \E j \in Idx("disconnect") : j < i

\* C7 amended: the outcome line (success or failure) is printed before the
\* connection is released: in every invocation that reaches connect, the
\* report step precedes the disconnect step.
C7_ReportBeforeDisconnect ==
  \A j \in Idx("disconnect") :
    /\ \E i \in DOMAIN trace : IsOutcomeLine(trace[i])
    /\ \A i \in DOMAIN trace : IsOutcomeLine(trace[i]) => i < j

C7_Witness_Released ==
  /\ pc = "done"
  /\ Count("disconnect") = 1
  /\ Printed(SuccessLine)

\* C8: the client is created, connected and used for a send at most once
\* each, in strict sequence: credentials validated before connect, connect
\* returned before send, send before disconnect; no send after a connect that
\* raised, exactly one send on the success path, nothing after disconnect.
C8_StrictSequence ==
  /\ Count("TelegramClient") <= 1
  /\ Count("start") <= 1
  /\ Count("send_message") <= 1
  /\ \A i \in Idx("start") :
       /\ ~MissingCredential
       /\ \E j \in Idx("load_config") : j < i
       /\ \E j \in Idx("TelegramClient") : j < i
  /\ \A i \in Idx("send_message") :
       /\ \E j \in Idx("start") : j < i
       /\ \A k \in Idx("raise") : k > i
  /\ \A i \in Idx("disconnect") :
       \A j \in Idx("TelegramClient") \cup Idx("start") \cup Idx("send_message") : j < i
  /\ Printed(SuccessLine) => Count("send_message") = 1
  /\ (Ended /\ Count("raise") = 0 /\ Count("start") = 1) => Count("send_message") = 1

C8_Witness_FullSequence ==
  /\ pc = "done"
  /\ Count("start") = 1
  /\ Count("send_message") = 1
  /\ Count("disconnect") = 1

\* C9: with message argument "-", the resolved body is standard input without
\* its leading and trailing whitespace and with everything between them
\* unchanged; "  Hello  \n" resolves to "Hello".
C9_BodyIsTrimmedStdin ==
  (argMessage = Sentinel /\ pc # "main") =>
    /\ IsTrimOf(message, stdin)
    /\ stdin = HelloInput => message = <<"H", "e", "l", "l", "o">>
    /\ \A i \in Idx("send_message") : trace[i].arg = <<recipient>> \o message

C9_Witness_Hello ==
  /\ argMessage = Sentinel
  /\ stdin = HelloInput
  /\ message = <<"H", "e", "l", "l", "o">>
  /\ Count("send_message") = 1

\* C10: with a message argument other than "-", standard input is never read,
\* the empty-message check is not applied, the invocation goes on to
\* credential validation, and the body passed to send is the argument
\* unchanged, also when it is empty or blank.
C10_LiteralUnchanged ==
  argMessage # Sentinel =>
    /\ Count("stdin.read") = 0
    /\ ~Printed(NoMessageLine)
    /\ message = argMessage
    /\ pc \notin {"main", "load_config"} => Count("load_config") = 1
    /\ \A i \in Idx("send_message") : trace[i].arg = <<recipient>> \o argMessage
    /\ (Ended /\ ~MissingCredential /\ Count("raise") = 0) => Count("send_message") = 1

C10_Witness_BlankLiteralSent ==
  /\ pc = "done"
  /\ argMessage = <<" ">>
  /\ \E i \in Idx("send_message") : trace[i].arg = <<recipient, " ">>
  /\ exitCode = <<0>>

====
